---- MODULE Spec2Model ----
(***************************************************************************)
(* Model of the ChatWidget component of src/app/page.tsx: the React state  *)
(* of the widget, its event handlers, the welcome effect and the           *)
(* asynchronous round-trip of handleSendMessage.                           *)
(*                                                                         *)
(* Strings are sequences of chunks.  The chunk " " is one whitespace       *)
(* character; every other chunk is a run of text that neither starts nor   *)
(* ends with whitespace.  String.prototype.trim is the operator Trim.      *)
(* Message ids are decimal renderings of integers (Date.now().toString(),  *)
(* '1'); the rendering is injective, so an id is kept as its integer.      *)
(*                                                                         *)
(* React runs an event handler and the effects of the render it causes     *)
(* before the next event is dispatched, so a handler and the welcome       *)
(* effect that follows it are one step.  The part of handleSendMessage     *)
(* after its awaits is a step of its own; it keeps the setMessages and     *)
(* currentConfig of the render in which the message was submitted.         *)
(* inputValue is kept only as the text handed to handleSendMessage;        *)
(* unreadCount (never incremented) and messagesEndRef are left out.        *)
(***************************************************************************)
EXTENDS Integers, Sequences, FiniteSets, TLC

VARIABLES
    isOpen,              \* useState(false), line 60
    activeAgent,         \* useState('support'), line 61
    msgs,                \* supportMessages / salesMessages, lines 62-63
    isLoading,           \* line 65
    suggestedQuestions,  \* line 66
    pending,             \* handleSendMessage calls suspended at an await
    now,                 \* the last reading of Date.now()
    submits,             \* history: the submits accepted so far
    lastEvent            \* history: the event handled last and its input

vars == <<isOpen, activeAgent, msgs, isLoading,
          suggestedQuestions, pending, now, submits, lastEvent>>

progVars == <<isOpen, activeAgent, msgs, isLoading,
              suggestedQuestions, pending>>

-----------------------------------------------------------------------------
(* Bounds of the model *)

MaxSubmits == 2        \* non-blank submits taken in one run
MaxInFlight == 2       \* suspended handleSendMessage calls kept at once
MaxClock == 3          \* last clock reading
MaxQuickReply == 1     \* how many of the displayed suggestions get clicked
MaxFeedbackIndex == 1  \* how many of the displayed messages get feedback

StartClock == 2       \* first clock reading (any epoch time exceeds 1)

-----------------------------------------------------------------------------
(* Strings *)

WS == " "

RECURSIVE TrimStart(_)
TrimStart(s) ==
    IF s # <<>> /\ Head(s) = WS THEN TrimStart(Tail(s)) ELSE s

RECURSIVE TrimEnd(_)
TrimEnd(s) ==
    IF s # <<>> /\ s[Len(s)] = WS THEN TrimEnd(SubSeq(s, 1, Len(s) - 1)) ELSE s

Trim(s) == TrimEnd(TrimStart(s))

-----------------------------------------------------------------------------
(* JavaScript values of the decoded response body *)

Undef == [t |-> "undefined"]
Null == [t |-> "null"]
Str(s) == [t |-> "string", s |-> s]
Num(n) == [t |-> "number", n |-> n]
Bool(b) == [t |-> "boolean", b |-> b]
Arr(items) == [t |-> "array", items |-> items]
Obj(f) == [t |-> "object", f |-> f]

Truthy(v) ==
    CASE v.t = "undefined" -> FALSE
      [] v.t = "null" -> FALSE
      [] v.t = "string" -> v.s # <<>>
      [] v.t = "number" -> v.n # 0
      [] v.t = "boolean" -> v.b
      [] OTHER -> TRUE

Nullish(v) == v.t \in {"undefined", "null"}

\* typeof v === 'string'
IsString(v) == v.t = "string"

\* typeof v === 'object' (arrays and null included)
TypeofObject(v) == v.t \in {"object", "array", "null"}

IsArray(v) == v.t = "array"

\* v.name on a non-nullish v
Get(v, name) ==
    IF v.t = "object" /\ name \in DOMAIN v.f THEN v.f[name] ELSE Undef

\* v?.name
OptGet(v, name) == IF Nullish(v) THEN Undef ELSE Get(v, name)

\* a ?? b
Coalesce(a, b) == IF Nullish(a) THEN b ELSE a

-----------------------------------------------------------------------------
(* The agent registry, lines 29-57 *)

Agents == {"support", "sales"}

SUPPORT_AGENT_CONFIG ==
    [id |-> "693050ee2bb6b2ddb363e3cb",
     welcomeMessage |-> <<"Hi there! I'm Amadeo Support Assistant. I'm here to answer any questions about Amadeo Banking AI Agent. You can ask me about features, capabilities, integrations, pricing, or use cases. What would you like to know?">>,
     suggestions |-> << <<"What is Amadeo?">>,
                        <<"What are the key features?">>,
                        <<"How does integration work?">>,
                        <<"What use cases are supported?">> >>]

SALES_AGENT_CONFIG ==
    [id |-> "693053006faee4d469e8a424",
     welcomeMessage |-> <<"Welcome! I'm your Amadeo Sales Copilot. I'm here to help you close more deals by providing sales strategies, objection handling, competitive positioning, and pitch preparation. How can I assist with your sales efforts today?">>,
     suggestions |-> << <<"How do I pitch Amadeo to a prospect?">>,
                        <<"How do I handle common objections?">>,
                        <<"What's Amadeo's competitive advantage?">>,
                        <<"Can you help me prepare a sales deck?">> >>]

\* agent === 'support' ? SUPPORT_AGENT_CONFIG : SALES_AGENT_CONFIG
ConfigOf(agent) ==
    IF agent = "support" THEN SUPPORT_AGENT_CONFIG ELSE SALES_AGENT_CONFIG

FALLBACK_TEXT ==
    <<"I understood your question. Please feel free to ask follow-up questions if you need more information.">>

PROCESSING_APOLOGY ==
    <<"I'm having trouble processing your question. Please try again.">>

CONNECTING_APOLOGY ==
    <<"I'm having trouble connecting. Please try again later.">>

-----------------------------------------------------------------------------
(* Messages.  The timestamp field is only displayed and is left out.  A
   feedback that is null or absent is "none": every read of the field
   compares it with 'up' or 'down' (lines 235, 357, 369). *)

\* the welcome message literal of lines 84-89 and 104-109
WelcomeMessage(config) ==
    [id |-> 1, text |-> config.welcomeMessage, sender |-> "agent",
     feedback |-> "none"]

\* userMessage, lines 126-131
UserMessage(clock, messageText) ==
    [id |-> clock, text |-> messageText, sender |-> "user",
     feedback |-> "none"]

\* agentMessage / errorMessage, lines 191-197, 207-213, 218-224
AgentMessage(clock, text) ==
    [id |-> clock + 1, text |-> text, sender |-> "agent", feedback |-> "none"]

-----------------------------------------------------------------------------
(* The success branch of handleSendMessage, lines 153-189 *)

\* responseText of the object branch, lines 161-173
ObjectText(resp) ==
    LET t1 == Get(resp, "response")
        mr == OptGet(Get(resp, "sales_guidance"), "main_response")
        t2 == IF ~Truthy(t1) /\ Truthy(mr) THEN mr ELSE t1
    IN  IF ~Truthy(t2)
        THEN Coalesce(Get(resp, "message"),
                      Coalesce(Get(resp, "text"),
                               IF IsString(resp) THEN resp ELSE Str(<<>>)))
        ELSE t2

\* the filter callback (q: string) => q && q.trim().length > 0
KeepEntryUntrimmed(q) == Truthy(q)
KeepEntry(q) == Truthy(q) /\ Len(Trim(q.s)) > 0

\* q.trim() on an entry that is truthy and no string raises a TypeError
EntriesThrow(items) ==
    \E i \in 1..Len(items) : Truthy(items[i]) /\ ~IsString(items[i])

FilterEntries(items) == SelectSeq(items, KeepEntry)

\* the array filtered at line 177, before the filter runs
FollowupCandidate(resp) ==
    LET sf == Get(resp, "suggested_followups")
    IN  IF Truthy(sf) /\ IsArray(sf) THEN sf.items ELSE <<>>

\* the array filtered at line 182; reached only when the first filter
\* returned normally and left followups empty
QuestionCandidate(resp) ==
    LET sq == OptGet(Get(resp, "sales_guidance"), "suggested_questions")
    IN  IF Truthy(sq) /\ IsArray(sq) THEN sq.items ELSE <<>>

\* lines 175-183: [throws, followups]
ObjectFollowups(resp) ==
    LET c1 == FollowupCandidate(resp)
        c2 == QuestionCandidate(resp)
    IN  IF EntriesThrow(c1) THEN [throws |-> TRUE, followups |-> <<>>]
        ELSE IF Len(FilterEntries(c1)) # 0
             THEN [throws |-> FALSE, followups |-> FilterEntries(c1)]
        ELSE IF EntriesThrow(c2) THEN [throws |-> TRUE, followups |-> <<>>]
        ELSE [throws |-> FALSE, followups |-> FilterEntries(c2)]

\* the strings held by an array of string values
Texts(items) == [i \in 1..Len(items) |-> items[i].s]

\* the test of line 152, negated: the else branch of line 205
IsSoftFailureStrict(data) == Get(data, "success") # Bool(TRUE)
IsSoftFailure(data) == ~Truthy(Get(data, "success"))

\* lines 152-228 between `const data = await response.json()` and the state
\* updates: the branch taken, the text of the message appended and the
\* followups; "catch" is a TypeError raised on the way
HandleData(data) ==
    IF Nullish(data)
    THEN [path |-> "catch", text |-> CONNECTING_APOLOGY, followups |-> <<>>]
    ELSE IF IsSoftFailure(data)
    THEN [path |-> "else", text |-> PROCESSING_APOLOGY, followups |-> <<>>]
    ELSE
    LET resp == Get(data, "response")
        isObj == ~IsString(resp) /\ Truthy(resp) /\ TypeofObject(resp)
        text0 == IF IsString(resp) THEN resp
                 ELSE IF isObj THEN ObjectText(resp) ELSE Str(<<>>)
        fu == IF isObj THEN ObjectFollowups(resp)
              ELSE [throws |-> FALSE, followups |-> <<>>]
        textThrows == Truthy(text0) /\ ~IsString(text0)
    IN  IF fu.throws \/ textThrows
        THEN [path |-> "catch", text |-> CONNECTING_APOLOGY, followups |-> <<>>]
        ELSE LET text1 == IF ~Truthy(text0) \/ Len(Trim(text0.s)) = 0
                          THEN FALLBACK_TEXT ELSE text0.s
             IN  [path |-> "success", text |-> Trim(text1),
                  followups |-> Texts(fu.followups)]

(* The outcome of `await fetch(...)` followed by `await response.json()`:
   fetch rejects, or resolves with a status and a body that json() decodes
   or rejects.  The status is never read by the handler. *)
NetworkError == [type |-> "network_error"]
MalformedJson(status) == [type |-> "malformed_json", status |-> status]
Json(status, data) == [type |-> "json", status |-> status, data |-> data]

\* the try / catch of lines 138-228
HandleOutcome(o) ==
    IF o.type = "json" THEN HandleData(o.data)
    ELSE [path |-> "catch", text |-> CONNECTING_APOLOGY, followups |-> <<>>]

-----------------------------------------------------------------------------
(* Inputs of the model *)

\* what the visitor types into the input field
InputTexts == { <<WS>>, <<"hi">> }

Data(success, response) == Obj([success |-> success, response |-> response])

Guidance(main, questions) ==
    Obj([main_response |-> main, suggested_questions |-> questions])

Payload(response, guidance, message, text, followups) ==
    Obj([response |-> response, sales_guidance |-> guidance,
         message |-> message, text |-> text,
         suggested_followups |-> followups])

\* the transport outcomes drawn by the widget's state machine: a rejected
\* fetch, an error status with a failure body, a reply with follow-ups
Outcomes ==
    { NetworkError,
      Json(500, Data(Bool(FALSE), Undef)),
      Json(200, Data(Bool(TRUE),
                     Payload(Str(<<"A", WS>>), Undef, Undef, Undef,
                             Arr(<<Str(<<>>), Str(<<"q1">>)>>)))) }

\* the values tried for each field of a reply object
ResponseField == { Undef, Str(<<>>), Str(<<WS>>), Str(<<WS, "A">>), Num(42) }
MainField == { Undef, Str(<<>>), Str(<<WS>>), Str(<<"B">>) }
MessageField == { Undef, Null, Str(<<>>), Str(<<"M">>) }
TextField == { Undef, Str(<<WS>>), Str(<<"T">>) }
FollowupsField ==
    { Undef, Arr(<<>>), Str(<<"q1">>), Arr(<<Num(7)>>),
      Arr(<<Str(<<WS>>), Str(<<>>)>>),
      Arr(<<Str(<<>>), Str(<<WS>>), Str(<<"q1">>)>>),
      Arr(<<Str(<<"q1">>), Null, Str(<<"q2", WS>>)>>) }
QuestionsField ==
    { Undef, Arr(<<Str(<<WS>>)>>),
      Arr(<<Str(<<"q3">>), Str(<<>>), Str(<<"q4">>)>>) }
GuidanceField ==
    { Undef } \cup { Guidance(m, q) : m \in MainField, q \in QuestionsField }

ReplyObjects ==
    { Payload(r, g, m, t, f) :
        r \in ResponseField, g \in GuidanceField, m \in MessageField,
        t \in TextField, f \in FollowupsField }

Responses ==
    ReplyObjects \cup
    { Undef, Null, Num(42), Arr(<<>>),
      Str(<<>>), Str(<<WS>>), Str(<<"A", WS>>) }

SuccessField == { Undef, Bool(FALSE), Bool(TRUE), Num(1) }

\* every outcome of one transport call
AllOutcomes ==
    { NetworkError, MalformedJson(200), MalformedJson(500),
      Json(200, Null) } \cup
    { Json(200, Data(s, r)) : s \in SuccessField, r \in Responses } \cup
    { Json(500, Data(s, Undef)) : s \in SuccessField }

-----------------------------------------------------------------------------
(* The widget *)

Init ==
    /\ isOpen = FALSE
    /\ activeAgent = "support"
    /\ msgs = [a \in Agents |-> <<>>]
    /\ isLoading = FALSE
    /\ suggestedQuestions = SUPPORT_AGENT_CONFIG.suggestions
    /\ pending = <<>>
    /\ now = StartClock
    /\ submits = 0
    /\ lastEvent = [kind |-> "init"]

\* setMessages of a render in which `agent` is active writes agent's log
\* (line 73); a setter is named by the key of the log it writes
SetterOf(agent) == agent

\* The welcome effect of lines 81-93, run after a render in which isOpen or
\* activeAgent changed: the logs and the suggestion list it leaves, from the
\* state (open, agent, m, sq) that the render shows
WelcomeEffect(open, agent, m, sq) ==
    IF open /\ Len(m[agent]) = 0
    THEN [msgs |-> [m EXCEPT ![SetterOf(agent)] =
                        <<WelcomeMessage(ConfigOf(agent))>>],
          sq |-> ConfigOf(agent).suggestions]
    ELSE [msgs |-> m, sq |-> sq]

\* the launcher button, line 256, and the effect its render triggers
Open ==
    /\ ~isOpen
    /\ LET e == WelcomeEffect(TRUE, activeAgent, msgs, suggestedQuestions)
       IN  /\ msgs' = e.msgs
           /\ suggestedQuestions' = e.sq
    /\ isOpen' = TRUE
    /\ lastEvent' = [kind |-> "open", agent |-> activeAgent]
    /\ UNCHANGED <<activeAgent, isLoading, pending, now, submits>>

\* the minimize button, line 289
Minimize ==
    /\ isOpen
    /\ isOpen' = FALSE
    /\ lastEvent' = [kind |-> "minimize", agent |-> activeAgent]
    /\ UNCHANGED <<activeAgent, msgs, isLoading,
                   suggestedQuestions, pending, now, submits>>

\* the suspended handleSendMessage calls after a close: the handler of
\* lines 296-300 aborts no fetch (line 138 passes no signal)
PendingAfterCloseAborted == <<>>
PendingAfterClose == pending

\* the close button, lines 296-300
Close ==
    /\ isOpen
    /\ isOpen' = FALSE
    /\ msgs' = [a \in Agents |-> <<>>]
    /\ pending' = PendingAfterClose
    /\ lastEvent' = [kind |-> "close", agent |-> activeAgent]
    /\ UNCHANGED <<activeAgent, isLoading,
                   suggestedQuestions, now, submits>>

\* the log that handleAgentSwitch seeds at line 103: setMessages there is the
\* setter of the render the handler belongs to, the agent active before the
\* switch
SwitchSeedTarget(agent) == SetterOf(activeAgent)

\* the suggestion list handleAgentSwitch leaves, line 112
SwitchSuggestionsKept(agent) ==
    IF Len(msgs[agent]) = 0 THEN ConfigOf(agent).suggestions
    ELSE suggestedQuestions
SwitchSuggestions(agent) == ConfigOf(agent).suggestions

\* handleAgentSwitch, lines 96-113, called by the tabs with the tab clicked
\* when the value changes (onValueChange, line 310), and the welcome effect
\* its render triggers
HandleAgentSwitch(agent) ==
    /\ isOpen
    /\ agent # activeAgent
    /\ LET config == ConfigOf(agent)
           targetMessages == msgs[agent]
           m1 == IF Len(targetMessages) = 0
                 THEN [msgs EXCEPT ![SwitchSeedTarget(agent)] =
                           <<WelcomeMessage(config)>>]
                 ELSE msgs
           e == WelcomeEffect(isOpen, agent, m1, SwitchSuggestions(agent))
       IN  /\ msgs' = e.msgs
           /\ suggestedQuestions' = e.sq
    /\ activeAgent' = agent
    /\ lastEvent' = [kind |-> "switch", agent |-> agent,
                     from |-> activeAgent, list |-> suggestedQuestions,
                     populated |-> Len(msgs[agent]) > 0]
    /\ UNCHANGED <<isOpen, isLoading, pending, now, submits>>

\* the input field and the suggestion buttons take input only while the
\* panel is rendered and isLoading is false (lines 253, 396, 423, 428)
SubmitEnabledWhileLoading == isOpen
SubmitEnabled == isOpen /\ ~isLoading

\* the guard of line 123: !messageText.trim()
IsBlankUntrimmed(messageText) == Len(messageText) = 0
IsBlank(messageText) == Len(Trim(messageText)) = 0

\* a reading of Date.now(): the clock never runs backwards
ClockReadings == now..MaxClock

\* handleSendMessage up to its first await, lines 122-147
HandleSendMessage(messageText) ==
    /\ lastEvent' = [kind |-> "submit", agent |-> activeAgent,
                     text |-> messageText]
    /\ IF IsBlank(messageText)
       THEN UNCHANGED <<msgs, isLoading, suggestedQuestions, pending,
                        submits, now>>
       ELSE /\ submits < MaxSubmits
            /\ Len(pending) < MaxInFlight
            /\ submits' = submits + 1
            /\ now' \in ClockReadings
            /\ msgs' = [msgs EXCEPT ![SetterOf(activeAgent)] =
                          Append(@, UserMessage(now', messageText))]
            /\ isLoading' = TRUE
            /\ suggestedQuestions' = <<>>
            /\ pending' = Append(pending,
                                 [agent |-> SetterOf(activeAgent),
                                  agent_id |-> ConfigOf(activeAgent).id,
                                  message |-> messageText])
    /\ UNCHANGED <<isOpen, activeAgent>>

\* Enter in the input field, lines 245-250, with inputValue the text typed
\* (the default parameter of line 122); the send button of line 427 does
\* the same for a text that is not blank
SubmitInput(text) ==
    /\ SubmitEnabled
    /\ HandleSendMessage(text)

\* a suggestion button, lines 241-243 and 402
HandleQuickReply(i) ==
    /\ SubmitEnabled
    /\ i \in 1..Len(suggestedQuestions)
    /\ i <= MaxQuickReply
    /\ HandleSendMessage(suggestedQuestions[i])

RemoveAt(seq, i) == SubSeq(seq, 1, i - 1) \o SubSeq(seq, i + 1, Len(seq))

\* the suggestion list after a reply, lines 201-204
SuggestionsAfter(res) ==
    IF res.path = "success" /\ Len(res.followups) > 0
    THEN res.followups ELSE suggestedQuestions

\* the loading flag when handleSendMessage ends: the finally block of
\* lines 226-228 runs after the try and after the catch
LoadingAfterTryOnly(res) == IF res.path = "catch" THEN isLoading ELSE FALSE
LoadingAfter(res) == FALSE

\* handleSendMessage from the completion of its awaits to its end,
\* lines 149-228, for the i-th suspended call and transport outcome o
Complete(i, o) ==
    /\ i \in 1..Len(pending)
    /\ now' \in ClockReadings
    /\ LET rt == pending[i]
           res == HandleOutcome(o)
       IN  /\ msgs' = [msgs EXCEPT ![rt.agent] =
                          Append(@, AgentMessage(now', res.text))]
           /\ suggestedQuestions' = SuggestionsAfter(res)
           /\ lastEvent' = [kind |-> "complete", agent |-> rt.agent,
                            request |-> rt, outcome |-> o,
                            path |-> res.path]
           /\ isLoading' = LoadingAfter(res)
    /\ pending' = RemoveAt(pending, i)
    /\ UNCHANGED <<isOpen, activeAgent, submits>>

\* the new feedback of a message, line 235
ToggleFeedback(old, feedback) == IF old = feedback THEN "none" ELSE feedback

\* handleFeedback, lines 231-239, from the buttons of the i-th message shown
HandleFeedback(i, feedback) ==
    /\ isOpen
    /\ i \in 1..Len(msgs[activeAgent])
    /\ msgs[activeAgent][i].sender = "agent"
    /\ LET messageId == msgs[activeAgent][i].id
       IN  /\ msgs' = [msgs EXCEPT ![SetterOf(activeAgent)] =
                  [k \in 1..Len(@) |->
                      IF @[k].id = messageId
                      THEN [@[k] EXCEPT !.feedback =
                               ToggleFeedback(@, feedback)]
                      ELSE @[k]]]
           /\ lastEvent' = [kind |-> "feedback", agent |-> activeAgent,
                            index |-> i, id |-> messageId,
                            value |-> feedback]
    /\ UNCHANGED <<isOpen, activeAgent, isLoading,
                   suggestedQuestions, pending, now, submits>>

Next ==
    \/ Open
    \/ Minimize
    \/ Close
    \/ \E agent \in Agents : HandleAgentSwitch(agent)
    \/ \E text \in InputTexts : SubmitInput(text)
    \/ \E i \in 1..MaxQuickReply : HandleQuickReply(i)
    \/ \E i \in 1..MaxInFlight, o \in Outcomes : Complete(i, o)
    \/ \E i \in 1..MaxFeedbackIndex, fb \in {"up", "down"} : HandleFeedback(i, fb)

Spec == Init /\ [][Next]_vars

\* every transport call ends: a suspended handleSendMessage is resumed
\* when its fetch resolves or rejects
TransportCompletes == \E i \in 1..MaxInFlight, o \in Outcomes : Complete(i, o)

\* the events that start, end or outlive a round-trip; the feedback
\* buttons and the suggestion buttons are left to Next
LiveNext ==
    \/ Open
    \/ Minimize
    \/ Close
    \/ \E agent \in Agents : HandleAgentSwitch(agent)
    \/ \E text \in InputTexts : SubmitInput(text)
    \/ TransportCompletes

LiveSpec == Init /\ [][LiveNext]_vars /\ WF_vars(TransportCompletes)

-----------------------------------------------------------------------------
(* One round-trip: the widget was opened, "hi" was submitted to the support
   agent, and the transport call ends in every possible way *)

RoundTripRequest ==
    [agent |-> "support", agent_id |-> SUPPORT_AGENT_CONFIG.id,
     message |-> <<"hi">>]

RoundTripInit ==
    /\ isOpen = TRUE
    /\ activeAgent = "support"
    /\ msgs = [a \in Agents |->
                 IF a = "support"
                 THEN <<WelcomeMessage(SUPPORT_AGENT_CONFIG),
                        UserMessage(StartClock, <<"hi">>)>>
                 ELSE <<>>]
    /\ isLoading = TRUE
    /\ suggestedQuestions = <<>>
    /\ pending = <<RoundTripRequest>>
    /\ now = StartClock
    /\ submits = 1
    /\ lastEvent = [kind |-> "submit", agent |-> "support",
                    text |-> <<"hi">>]

RoundTripNext == pending # <<>> /\ \E o \in AllOutcomes : Complete(1, o)

RoundTripSpec == RoundTripInit /\ [][RoundTripNext]_vars

\* the first state of RoundTripSpec is a state of Spec
RoundTripInitReached == RoundTripInit

-----------------------------------------------------------------------------
(* Feedback: a visitor who opens the panel, submits "hi" to the support
   agent while the network is down, and uses the feedback buttons of every
   agent message shown *)

\* the longest log of a run: the welcome message and two messages for
\* each submit
MaxLog == 1 + 2 * MaxSubmits

FeedbackNext ==
    \/ Open
    \/ SubmitInput(<<"hi">>)
    \/ \E i \in 1..MaxInFlight : Complete(i, NetworkError)
    \/ \E i \in 1..MaxLog, fb \in {"up", "down"} : HandleFeedback(i, fb)

FeedbackSpec == Init /\ [][FeedbackNext]_vars

-----------------------------------------------------------------------------
(* Vocabulary of the properties *)

\* the step just taken completed a round-trip
CompletedStep == lastEvent'.kind = "complete"

\* the reply object of a decoded body
ResponseOf(o) == Get(o.data, "response")

\* the body is a decoded JSON object
HasObjectBody(o) == o.type = "json" /\ o.data.t = "object"

\* the last message of a log
LastOf(log) == log[Len(log)]

\* a string that is not empty after trim
Usable(v) == IsString(v) /\ Trim(v.s) # <<>>

\* the four text candidates of a reply object, in the stated order
Candidates(resp) ==
    << Get(resp, "response"),
       OptGet(Get(resp, "sales_guidance"), "main_response"),
       Get(resp, "message"),
       Get(resp, "text") >>

RECURSIVE FirstUsable(_)
FirstUsable(c) ==
    IF c = <<>> THEN FALLBACK_TEXT
    ELSE IF Usable(Head(c)) THEN Trim(Head(c).s)
    ELSE FirstUsable(Tail(c))

\* the usable entries of an array, in order; none for anything else
UsableEntries(v) ==
    IF v.t = "array" THEN Texts(SelectSeq(v.items, Usable)) ELSE <<>>

\* a reply object all of whose fields hold what their names promise:
\* strings (or nothing) as texts, arrays of strings (or nothing) as lists
WellTyped(resp) ==
    /\ resp.t = "object"
    /\ \A i \in 1..4 : IsString(Candidates(resp)[i]) \/ Nullish(Candidates(resp)[i])
    /\ \A v \in { Get(resp, "suggested_followups"),
                  OptGet(Get(resp, "sales_guidance"), "suggested_questions") } :
          \/ Nullish(v)
          \/ v.t = "array" /\ \A i \in 1..Len(v.items) : IsString(v.items[i])

-----------------------------------------------------------------------------
(* C3 -- text extraction precedence.  For every reply object delivered with
   success=true, the text of the agent message appended is the first of
   response, sales_guidance.main_response, message, text that is non-empty
   after trim, and the fallback text only when none is. *)
C3_TextPrecedence ==
    [][ ( /\ CompletedStep
          /\ HasObjectBody(lastEvent'.outcome)
          /\ Get(lastEvent'.outcome.data, "success") = Bool(TRUE)
          /\ WellTyped(ResponseOf(lastEvent'.outcome)) )
        => /\ Len(msgs'[lastEvent'.agent]) = Len(msgs[lastEvent'.agent]) + 1
           /\ LastOf(msgs'[lastEvent'.agent]).text =
                 FirstUsable(Candidates(ResponseOf(lastEvent'.outcome))) ]_vars

(* C4 -- normalization is total.  Every body delivered with success=true,
   whatever the shape of its response, takes the success branch and appends
   an agent message whose text is non-empty after trim and is no apology. *)
C4_NormalizeTotal ==
    [][ ( /\ CompletedStep
          /\ HasObjectBody(lastEvent'.outcome)
          /\ Get(lastEvent'.outcome.data, "success") = Bool(TRUE) )
        => /\ lastEvent'.path = "success"
           /\ Len(msgs'[lastEvent'.agent]) = Len(msgs[lastEvent'.agent]) + 1
           /\ LastOf(msgs'[lastEvent'.agent]).sender = "agent"
           /\ Trim(LastOf(msgs'[lastEvent'.agent]).text) # <<>>
           /\ LastOf(msgs'[lastEvent'.agent]).text \notin
                 { CONNECTING_APOLOGY, PROCESSING_APOLOGY } ]_vars

\* the followups the claim C5 describes
StatedFollowups(resp) ==
    LET a == UsableEntries(Get(resp, "suggested_followups"))
        b == UsableEntries(OptGet(Get(resp, "sales_guidance"),
                                  "suggested_questions"))
    IN  IF a # <<>> THEN a ELSE b

(* C5 -- follow-up extraction.  After a round-trip that started with an
   empty suggestion list has settled, the suggestion list is
   suggested_followups filtered to the entries non-empty after trim if that
   leaves any, else sales_guidance.suggested_questions filtered the same
   way, else empty; the order is kept and no entry is blank. *)
C5_FollowupPrecedence ==
    (lastEvent.kind = "complete" /\ lastEvent.path = "success")
    => /\ suggestedQuestions = StatedFollowups(ResponseOf(lastEvent.outcome))
       /\ \A i \in 1..Len(suggestedQuestions) :
             Trim(suggestedQuestions[i]) # <<>>

\* a reply whose suggested_followups holds entries, all blank, settled with
\* the questions of sales_guidance, blanks dropped and order kept
C5_Witness ==
    /\ lastEvent.kind = "complete"
    /\ lastEvent.path = "success"
    /\ Get(ResponseOf(lastEvent.outcome), "suggested_followups") =
          Arr(<<Str(<<WS>>), Str(<<>>)>>)
    /\ suggestedQuestions = << <<"q3">>, <<"q4">> >>

\* a transport-level failure: fetch rejected, the body was no JSON, or the
\* status was not 2xx
TransportFailure(o) ==
    \/ o.type \in {"network_error", "malformed_json"}
    \/ o.status \notin 200..299

(* C6 -- every transport-level failure (network error, non-2xx status,
   malformed JSON body) appends exactly one agent message with the
   connectivity apology to the issuing conversation, clears the loading
   flag and leaves the conversation with nothing in flight. *)
C6_TransportFailure ==
    [][ (CompletedStep /\ TransportFailure(lastEvent'.outcome))
        => /\ msgs'[lastEvent'.agent] =
                 Append(msgs[lastEvent'.agent],
                        AgentMessage(now', CONNECTING_APOLOGY))
           /\ ~isLoading'
           /\ \A i \in 1..Len(pending') :
                 pending'[i].agent # lastEvent'.agent ]_vars

(* C7 as stated -- a decoded body {success: boolean, response?} that lacks
   success=true, or lacks the response field, appends exactly one agent
   message with the processing apology and nothing else. *)
C7_SoftFailureAsStated ==
    [][ ( /\ CompletedStep
          /\ HasObjectBody(lastEvent'.outcome)
          /\ Get(lastEvent'.outcome.data, "success").t
                \in {"boolean", "undefined"}
          /\ \/ Get(lastEvent'.outcome.data, "success") # Bool(TRUE)
             \/ ResponseOf(lastEvent'.outcome) = Undef )
        => msgs'[lastEvent'.agent] =
              Append(msgs[lastEvent'.agent],
                     AgentMessage(now', PROCESSING_APOLOGY)) ]_vars

(* C7 -- soft failure, amended.  A decoded body whose success field is
   missing or falsy appends exactly one agent message with the processing
   apology, a text different from the connectivity apology and from the
   fallback text, appends no reply and issues no retry.  A body with a
   truthy success and no response field is no soft failure: it settles
   with the fallback text. *)
C7_SoftFailure ==
    [][ (CompletedStep /\ HasObjectBody(lastEvent'.outcome))
        => /\ ~Truthy(Get(lastEvent'.outcome.data, "success"))
              => /\ lastEvent'.path = "else"
                 /\ msgs' = [msgs EXCEPT ![lastEvent'.agent] =
                       Append(@, AgentMessage(now', PROCESSING_APOLOGY))]
                 /\ Len(pending') = Len(pending) - 1
                 /\ suggestedQuestions' = suggestedQuestions
           /\ ( /\ Truthy(Get(lastEvent'.outcome.data, "success"))
                /\ ResponseOf(lastEvent'.outcome) = Undef )
              => /\ lastEvent'.path = "success"
                 /\ msgs' = [msgs EXCEPT ![lastEvent'.agent] =
                       Append(@, AgentMessage(now', FALLBACK_TEXT))]
           /\ PROCESSING_APOLOGY \notin { CONNECTING_APOLOGY, FALLBACK_TEXT }
      ]_vars

\* a body with success=false has been answered with the processing apology
C7_Witness ==
    /\ lastEvent.kind = "complete"
    /\ HasObjectBody(lastEvent.outcome)
    /\ Get(lastEvent.outcome.data, "success") = Bool(FALSE)
    /\ lastEvent.path = "else"
    /\ LastOf(msgs[lastEvent.agent]).text = PROCESSING_APOLOGY
    /\ pending = <<>>

-----------------------------------------------------------------------------
(* Properties of the widget's state machine *)

\* a round-trip issued against agent a is in flight
InFlight(a) == \E i \in 1..Len(pending) : pending[i].agent = a

\* the round-trips of agent a among the requests q
RequestsOf(q, a) == { i \in 1..Len(q) : q[i].agent = a }

(* C1 -- per-agent histories are isolated.  No open, minimize, agent switch,
   submit, completion or feedback event aimed at an agent changes the
   message log of another agent; in particular a switch to an agent whose
   log is empty leaves the log of the agent switched away from as it was. *)
C1_Isolation ==
    [][ lastEvent'.kind \in {"open", "minimize", "switch", "submit",
                             "complete", "feedback"}
        => \A a \in Agents :
              a # lastEvent'.agent => msgs'[a] = msgs[a] ]_vars

(* C2 -- a round-trip that completes while another agent is active carries
   the remote id of the agent it was submitted to and appends its agent
   message to the log of that agent, right after the user message of the
   round-trip, leaving the log of the active agent alone. *)
C2_SwitchedRoundTrip ==
    [][ (CompletedStep /\ activeAgent # lastEvent'.agent)
        => /\ lastEvent'.request.agent_id = ConfigOf(lastEvent'.agent).id
           /\ msgs'[activeAgent] = msgs[activeAgent]
           /\ Len(msgs'[lastEvent'.agent]) = Len(msgs[lastEvent'.agent]) + 1
           /\ LastOf(msgs'[lastEvent'.agent]).sender = "agent"
           /\ Len(msgs[lastEvent'.agent]) > 0
           /\ LastOf(msgs[lastEvent'.agent]).sender = "user"
           /\ LastOf(msgs[lastEvent'.agent]).text = lastEvent'.request.message
      ]_vars

(* C8 -- at most one round-trip is in flight per conversation.  No two
   suspended round-trips belong to the same agent; a submit made while the
   agent's round-trip is in flight changes nothing; and while it is in
   flight no step appends a user message to that agent's log or starts
   another transport call for it. *)
C8_OneInFlight ==
    [][ /\ \A a \in Agents : Cardinality(RequestsOf(pending', a)) <= 1
        /\ \A a \in Agents :
              InFlight(a)
              => /\ Cardinality(RequestsOf(pending', a)) <=
                       Cardinality(RequestsOf(pending, a))
                 /\ ~ ( /\ Len(msgs'[a]) = Len(msgs[a]) + 1
                        /\ SubSeq(msgs'[a], 1, Len(msgs[a])) = msgs[a]
                        /\ LastOf(msgs'[a]).sender = "user" )
                 /\ (lastEvent'.kind = "submit" /\ lastEvent'.agent = a)
                       => UNCHANGED progVars ]_vars

\* the panel is open on a conversation whose round-trip is in flight: its
\* user message is the last of the log and the controls are disabled
C8_Witness ==
    /\ isOpen
    /\ isLoading
    /\ InFlight(activeAgent)
    /\ Len(msgs[activeAgent]) >= 2
    /\ LastOf(msgs[activeAgent]).sender = "user"
    /\ ~SubmitEnabled

(* C9 -- submitting a text that is empty after trim is a no-op: no log, the
   loading flag, the suggestion list and the calls in flight all stay as
   they were. *)
C9_BlankSubmitNoOp ==
    [][ (lastEvent'.kind = "submit" /\ Trim(lastEvent'.text) = <<>>)
        => UNCHANGED progVars ]_vars

\* a text of one blank has been submitted on the open panel
C9_Witness ==
    /\ lastEvent.kind = "submit"
    /\ lastEvent.text = <<WS>>
    /\ isOpen
    /\ ~isLoading
    /\ pending = <<>>
    /\ Len(msgs[activeAgent]) = 1

(* C10 as stated -- activation is idempotent: with nothing in flight,
   switching to an agent whose log has messages, right after having
   switched away from it, changes nothing but the active agent: its log and
   the suggestion list shown for it before are as they were. *)
C10_ActivationAsStated ==
    [][ ( /\ lastEvent.kind = "switch"
          /\ pending = <<>>
          /\ lastEvent'.kind = "switch"
          /\ lastEvent'.agent = lastEvent.from
          /\ Len(msgs[lastEvent'.agent]) > 0 )
        => /\ msgs'[lastEvent'.agent] = msgs[lastEvent'.agent]
           /\ suggestedQuestions' = lastEvent.list ]_vars

(* C10 -- activation, amended.  Switching to an agent whose log has
   messages leaves every log, the loading flag and the calls in flight as
   they were; it changes the active agent and resets the suggestion list to
   that agent's initial suggestions, whatever follow-ups its last reply
   left.  Switching to an agent whose log is empty leaves that log with
   one message, so a later switch to it does not add a second. *)
C10_Activation ==
    [][ lastEvent'.kind = "switch"
        => /\ activeAgent' = lastEvent'.agent
           /\ Len(msgs[lastEvent'.agent]) > 0
              => /\ msgs' = msgs
                 /\ suggestedQuestions' =
                       ConfigOf(lastEvent'.agent).suggestions
                 /\ UNCHANGED <<isOpen, isLoading, pending>>
           /\ Len(msgs[lastEvent'.agent]) = 0
              => Len(msgs'[lastEvent'.agent]) = 1 ]_vars

\* the visitor has switched back to an agent whose last reply had left
\* follow-ups on display: the log is kept, the initial suggestions show
C10_Witness ==
    /\ lastEvent.kind = "switch"
    /\ lastEvent.populated
    /\ lastEvent.list = << <<"q1">> >>
    /\ Len(msgs[activeAgent]) > 1
    /\ LastOf(msgs[activeAgent]).sender = "agent"
    /\ suggestedQuestions = ConfigOf(activeAgent).suggestions

-----------------------------------------------------------------------------
(* C11 -- feedback is a toggle on exactly one message.  A click on a
   feedback button of a message sets that message's feedback to the value
   clicked, or to none when it had that value already, and leaves every
   other message of the log, the order and the texts of the log, and every
   other log as they were. *)
C11_FeedbackToggle ==
    [][ lastEvent'.kind = "feedback"
        => LET a == lastEvent'.agent
               i == lastEvent'.index
           IN  /\ Len(msgs'[a]) = Len(msgs[a])
               /\ msgs'[a][i] =
                     [msgs[a][i] EXCEPT !.feedback =
                         IF @ = lastEvent'.value THEN "none"
                         ELSE lastEvent'.value]
               /\ \A k \in 1..Len(msgs[a]) :
                     k # i => msgs'[a][k] = msgs[a][k]
               /\ \A b \in Agents : b # a => msgs'[b] = msgs[b] ]_vars

(* C12 -- close resets, minimize keeps.  The close button empties every
   message log and clears the loading flag, and a panel reopened right
   after it shows the welcome message of the active agent alone, its
   initial suggestions and no typing indicator.  The minimize button leaves
   every log, the suggestion list, the loading flag and the calls in flight
   as they were, and so does reopening after it. *)
C12_CloseResets ==
    [][ /\ lastEvent'.kind = "close"
           => /\ \A a \in Agents : msgs'[a] = <<>>
              /\ ~isLoading'
        /\ (lastEvent.kind = "close" /\ lastEvent'.kind = "open")
           => /\ msgs' = [a \in Agents |->
                            IF a = activeAgent
                            THEN <<WelcomeMessage(ConfigOf(a))>> ELSE <<>>]
              /\ suggestedQuestions' = ConfigOf(activeAgent).suggestions
              /\ ~isLoading'
        /\ lastEvent'.kind = "minimize"
           => UNCHANGED <<activeAgent, msgs, isLoading,
                          suggestedQuestions, pending>>
        /\ (lastEvent.kind = "minimize" /\ lastEvent'.kind = "open")
           => UNCHANGED <<activeAgent, msgs, isLoading,
                          suggestedQuestions, pending>> ]_vars

(* C13 -- every accepted submit ends idle.  If every transport call ends,
   a conversation with a round-trip in flight eventually has none in flight
   and the loading flag false; and every completion, whether it took the
   success branch, the else branch or the catch block, clears the loading
   flag in the same step that appends its message. *)
C13_EventuallyIdle ==
    /\ \A a \in Agents : InFlight(a) ~> (~InFlight(a) /\ ~isLoading)
    /\ [][ CompletedStep
           => /\ ~isLoading'
              /\ Len(pending') = Len(pending) - 1
              /\ Len(msgs'[lastEvent'.agent]) =
                    Len(msgs[lastEvent'.agent]) + 1 ]_vars

\* a round-trip has ended in the catch block and left the open panel idle
C13_Witness ==
    /\ lastEvent.kind = "complete"
    /\ lastEvent.path = "catch"
    /\ ~InFlight(lastEvent.agent)
    /\ ~isLoading
    /\ isOpen
    /\ SubmitEnabled

(* C14 -- message ids.  In every state the ids of the messages of one log
   are strictly increasing in log order, hence pairwise distinct, for any
   clock readings that never decrease. *)
C14_IdsIncreasing ==
    \A a \in Agents :
        \A i, j \in 1..Len(msgs[a]) :
            i < j => msgs[a][i].id < msgs[a][j].id

(* C15 -- the suggestion list during a round-trip.  While the round-trip of
   the conversation on display is in flight the suggestion list is empty,
   whatever switches, minimizes and reopenings happen meanwhile; the
   completion of that round-trip leaves the list empty when it fails and
   leaves nothing but the followups of its reply when it settles. *)
C15_EmptyWhileInFlight ==
    [][ /\ RequestsOf(pending', activeAgent') # {}
           => suggestedQuestions' = <<>>
        /\ (CompletedStep /\ lastEvent'.agent = activeAgent)
           => IF lastEvent'.path = "success"
              THEN suggestedQuestions' =
                      StatedFollowups(ResponseOf(lastEvent'.outcome))
              ELSE suggestedQuestions' = <<>> ]_vars

(* C16 -- suggestions after a reply.  When the round-trip of agent A
   settles on the success branch while A is on display, the suggestion list
   becomes the followups of that reply, empty when it has none; when
   another agent is on display, the suggestion list shown for that agent
   stays as it was. *)
C16_SuggestionsOfReply ==
    [][ (CompletedStep /\ lastEvent'.path = "success")
        => IF lastEvent'.agent = activeAgent
           THEN suggestedQuestions' =
                   StatedFollowups(ResponseOf(lastEvent'.outcome))
           ELSE suggestedQuestions' = suggestedQuestions ]_vars

(* C17 -- round-trips of different agents run side by side.  While the
   round-trip of agent A is in flight and the panel shows agent B, which
   has none in flight, B is idle: its typing indicator is off and its input
   takes a submit. *)
C17_ConcurrentRoundTrips ==
    \A a, b \in Agents :
        ( /\ a # b
          /\ isOpen
          /\ activeAgent = b
          /\ InFlight(a)
          /\ ~InFlight(b) )
        => /\ ~isLoading
           /\ SubmitEnabled

(* C18 -- no cancellation.  The close button leaves the calls in flight in
   flight; if every transport call ends, a call in flight at a close ends
   too; and its completion, whatever the state of the widget then, appends
   one agent message to the log of the agent it was issued against, reset
   or not, leaves the other logs alone and clears the loading flag. *)
C18_NoCancellation ==
    /\ [][ lastEvent'.kind = "close" => pending' = pending ]_vars
    /\ (lastEvent.kind = "close" /\ pending # <<>>) ~> (pending = <<>>)
    /\ [][ CompletedStep
           => /\ lastEvent'.request \in { pending[i] : i \in 1..Len(pending) }
              /\ lastEvent'.agent = lastEvent'.request.agent
              /\ Len(msgs'[lastEvent'.agent]) =
                    Len(msgs[lastEvent'.agent]) + 1
              /\ SubSeq(msgs'[lastEvent'.agent], 1,
                        Len(msgs[lastEvent'.agent])) = msgs[lastEvent'.agent]
              /\ LastOf(msgs'[lastEvent'.agent]).sender = "agent"
              /\ \A b \in Agents :
                    b # lastEvent'.agent => msgs'[b] = msgs[b]
              /\ ~isLoading' ]_vars

\* the call in flight at a close has ended while the panel was closed: its
\* message is the only one of the reset log and nothing is loading
C18_Witness ==
    /\ lastEvent.kind = "complete"
    /\ ~isOpen
    /\ Len(msgs[lastEvent.agent]) = 1
    /\ msgs[lastEvent.agent][1].sender = "agent"
    /\ msgs[lastEvent.agent][1].id # 1
    /\ ~isLoading
    /\ pending = <<>>

(* C19 -- the welcome message.  In every state a log that is not empty
   starts with an agent message whose text is the welcome text of the agent
   the log belongs to, and holds that message exactly once. *)
C19_WelcomeFirst ==
    \A a \in Agents :
        msgs[a] # <<>>
        => /\ msgs[a][1].sender = "agent"
           /\ msgs[a][1].text = ConfigOf(a).welcomeMessage
           /\ Cardinality({ k \in 1..Len(msgs[a]) :
                               /\ msgs[a][k].sender = "agent"
                               /\ msgs[a][k].text = ConfigOf(a).welcomeMessage })
                 = 1

====
